---------------------------- MODULE Spec2Model ----------------------------
(***************************************************************************)
(* tetraBB -> NodeBB migration script (app.mjs).                           *)
(*                                                                         *)
(* Two revisions of the script are modelled side by side:                  *)
(*   version = "app"      src/app.mjs              (one batch, no finally) *)
(*   version = "chunked"  src/unnamed/part_002:1-695 (chunks of chunkSize, *)
(*                        try/finally with cleanUp, Anonymous fallback)    *)
(*                                                                         *)
(* Node runs the script on one thread: a callback for an I/O event (an     *)
(* HTTP response, a finished file read) runs to completion together with   *)
(* every promise reaction it makes runnable.  Each action below is one     *)
(* such I/O event with all the synchronous code and promise reactions that *)
(* follow it, up to the point where every chain waits for I/O again.       *)
(*                                                                         *)
(* Contents are strings over the two characters "x" and "\n"; the          *)
(* placeholder padding of short contents never changes whether a content   *)
(* is split (8 + placeholder length is far below maxPostLength) and is     *)
(* left out of the run model.  The content of a record is the text handed  *)
(* to splitContent (for a reply: after the subject line is prepended).     *)
(*                                                                         *)
(* A promise chain that rejects with nobody awaiting it (the continuation  *)
(* started by the tag action) is modelled as a chain that just ends: the   *)
(* rest of the script keeps running.                                       *)
(***************************************************************************)
EXTENDS Integers, Sequences, FiniteSets, TLC

VARIABLES
    version,            \* which revision of the script runs
    scenario,           \* which forum folder / mapping file the run is given
    driver,             \* top-level script and dir.files callback: position and progress
    users,              \* users: username -> state of the promise with the uid
    lookups,            \* per username: GET /api/user/username requests issued
    creates,            \* per username: POST /users requests issued
    tetraPid2nodePid,   \* Tetra post id -> NodeBB post id
    tetraPid2nodeTid,   \* Tetra post id -> NodeBB topic id
    parsedTetra,        \* per post: state of its parse promise
    tasks,              \* migration tasks: promise chains with their call stacks
    requests,           \* requests sent to NodeBB for posts and tags, in order, each
                        \* with the caller of the migrateTetraPost that sent it
    nextId,             \* next id NodeBB hands out (topics, posts, users)
    attempted,          \* legacy ids migrateTetraPost has been called for
    file,               \* content of the mapping file on disk
    call                \* the call of a pure function under evaluation (none in a run)

vars == <<version, scenario, driver, users, lookups, creates, tetraPid2nodePid,
          tetraPid2nodeTid, parsedTetra, tasks, requests, nextId, attempted, file,
                   call>>

-----------------------------------------------------------------------------
(* Program constants, scaled down.                                         *)

\* const maxPostLength = 32000; scaled to 3 characters
maxPostLength == 3

\* const chunkSize = 100; scaled to 2 posts per chunk
chunkSize == 2

\* number of admin settings in the relaxing / restoring alterAdminSettings call
NSettings == IF version = "app" THEN 5 ELSE 6

-----------------------------------------------------------------------------
(* The inputs of a run: the forum folder, the accounts NodeBB already has, *)
(* and the mapping file found at start.                                    *)

NL == "\n"

Usernames == {"a", "b", "Anonymous"}

\* accounts that exist in NodeBB before the run: the lookup answers res.ok
ExistingAccounts == {"a"}

\* usernames NodeBB may reject with "Invalid Username" on creation
RejectableNames == {"b"}

Post(start, prev, hasNext, nxt, tags, user, content) ==
    [isThreadStart |-> start, previous |-> prev, hasNext |-> hasNext, next |-> nxt,
     tags |-> tags, username |-> user, content |-> content, subject |-> "s"]

short == <<"x", "x">>
long  == <<"x", "x", NL, "x", "x">>

\* Forum folders, by scenario: legacy post id -> parsed record.
\* previous = 0 stands for the empty PREVIOUS> value, subject = "" for no subject.
Forum(s) ==
    CASE s = "tree" ->
           \* a thread with two replies, and an unrelated tagged thread
           <<Post(TRUE,  0, TRUE, <<2, 3>>, FALSE, "a", short),
             Post(FALSE, 1, TRUE, <<>>,     FALSE, "b", short),
             Post(FALSE, 1, TRUE, <<>>,     FALSE, "b", short),
             Post(TRUE,  0, TRUE, <<>>,     TRUE,  "a", short)>>
      [] s = "overflow" ->
           \* an oversized tagged thread start, an oversized reply
           <<Post(TRUE,  0, TRUE, <<2>>,    TRUE,  "a", long),
             Post(FALSE, 1, TRUE, <<>>,     FALSE, "a", long)>>
      [] s = "cross" ->
           \* two thread starts that both list post 3, a reply to post 2
           <<Post(TRUE,  0, TRUE, <<3>>,    FALSE, "a", short),
             Post(TRUE,  0, TRUE, <<3>>,    FALSE, "a", short),
             Post(FALSE, 2, TRUE, <<>>,     FALSE, "a", short)>>
      [] s = "bare" ->
           \* a thread start whose file has no NEXT> line: next stays null
           <<Post(TRUE,  0, FALSE, <<>>,    FALSE, "a", short)>>

Scenarios == {"tree", "overflow", "cross", "bare"}

\* Mapping files a run may find at start: the set of legacy ids recorded in it
\* (the id i is recorded with NodeBB topic id i and post id i).
MappingFiles(s) ==
    CASE s = "tree"     -> {{1}, {2}, {1, 2}}
      [] s = "overflow" -> {}
      [] s = "cross"    -> {{}, {2}}
      [] s = "bare"     -> {}

EmptyMap == [x \in {} |-> 0]


-----------------------------------------------------------------------------
(* Content Splitter.                                                       *)

\* content.slice(0, maxPostLength).lastIndexOf('\n'), as a 0-based index, -1 if none
LastNewline(content) ==
    LET head == SubSeq(content, 1, maxPostLength)
        at   == {i \in 1..Len(head) : head[i] = NL}
    IN  IF at = {} THEN -1 ELSE (CHOOSE i \in at : \A j \in at : j <= i) - 1

\* String.prototype.slice(from, to) with JavaScript's negative indices
Slice(content, from, to) ==
    LET n  == Len(content)
        ix(v) == IF v < 0 THEN (IF n + v < 0 THEN 0 ELSE n + v) ELSE (IF v > n THEN n ELSE v)
    IN  SubSeq(content, ix(from) + 1, ix(to))

\* faulty variant of splitContent: the newline at the cut is dropped from the rest
splitContentDropsNewline(content) ==
    IF Len(content) <= maxPostLength
    THEN [split |-> content, rest |-> <<>>]
    ELSE LET splitEnd == LastNewline(content)
         IN  [split |-> Slice(content, 0, splitEnd),
              rest  |-> Slice(content, splitEnd + 1, Len(content))]

\* rest = <<>> stands for rest: undefined
splitContent(content) ==
    IF Len(content) <= maxPostLength
    THEN [split |-> content, rest |-> <<>>]
    ELSE LET splitEnd == LastNewline(content)
         IN  [split |-> Slice(content, 0, splitEnd),
              rest  |-> Slice(content, splitEnd, Len(content))]

-----------------------------------------------------------------------------
(* The ParsedPost handed to migrateTetraPost: the record of post p for     *)
(* k = 0, the k-th overflow continuation of it (ext) for k > 0.            *)

Pids == 1..Len(Forum(scenario))

RECURSIVE ContentOf(_, _)
ContentOf(p, k) ==
    IF k = 0 THEN Forum(scenario)[p].content
    ELSE splitContent(ContentOf(p, k - 1)).rest

\* faulty variant of ParsedPost: the continuation keeps the subject and the next
\* ids of the record it was cloned from
ParsedPostKeepsLinks(p, k) ==
    LET rec == Forum(scenario)[p]
    IN  IF k = 0 THEN rec
        ELSE [rec EXCEPT !.isThreadStart = FALSE, !.previous = p,
                         !.content = ContentOf(p, k)]

ParsedPost(p, k) ==
    LET rec == Forum(scenario)[p]
    IN  IF k = 0 THEN rec
        ELSE [rec EXCEPT !.isThreadStart = FALSE, !.previous = p,
                         !.content = ContentOf(p, k),
                         !.subject = "", !.hasNext = FALSE, !.next = <<>>]

-----------------------------------------------------------------------------
(* The script's heap as one record, so that the synchronous code of a      *)
(* callback composes as functions World -> World.                          *)

World ==
    [users |-> users, lookups |-> lookups, creates |-> creates,
     pid |-> tetraPid2nodePid, tid |-> tetraPid2nodeTid,
     parsed |-> parsedTetra, tasks |-> tasks, requests |-> requests,
     nextId |-> nextId, attempted |-> attempted]

\* F applied to the value of x, with x evaluated once (sequencing of statements)
Bind(x, F(_)) == CHOOSE r \in {F(v) : v \in {x}} : TRUE

Top(w, t) == w.tasks[t].stack[Len(w.tasks[t].stack)]

SetTop(w, t, fr) ==
    [w EXCEPT !.tasks[t].stack[Len(w.tasks[t].stack)] = fr]

Settled(st) == st \in {"ok", "invalid", "error"}

\* the legacy ids that were not in the mapping at start: keys of parsedTetra / postPaths
AllParsed(w) == {w.tasks[t].pid : t \in 1..Len(w.tasks)} \ {0}

\* a rejected promise or a throw inside migrateTetraPost: no frame catches it,
\* the whole chain of the task rejects
Throw(w, t) ==
    [w EXCEPT !.tasks[t].st = "failed", !.tasks[t].stack = <<>>]

\* the same after a request of the chain was answered with a failure (the task
\* remembers that it was NodeBB that failed)
Reject(w, t) ==
    Throw([w EXCEPT !.tasks[t].rejected = TRUE], t)

\* the same for an error thrown by the script itself; the task remembers which
ThrowError(w, t, error) ==
    Throw([w EXCEPT !.tasks[t].cause = error], t)

\* faulty variant of getOrCreateUserId: the cache of promises is not consulted
getOrCreateUserIdUncached(w, username) ==
    [w EXCEPT !.users[username].st = "lookup", !.lookups[username] = @ + 1]

getOrCreateUserId(w, username) ==
    IF w.users[username].st # "none" THEN w
    ELSE [w EXCEPT !.users[username].st = "lookup", !.lookups[username] = @ + 1]

\* faulty variant of preparePostForRequest: a reply is built without the check of
\* the topic id of the previous post
preparePostForRequestUngated(w0, t, uid) ==
    Bind(w0, LAMBDA w :
      LET fr     == Top(w, t)
          parsed == ParsedPost(fr.pid, fr.k)
          prev   == parsed.previous
          tid    == IF prev \in DOMAIN w.tid THEN w.tid[prev] ELSE 0
          toPid  == IF prev \in DOMAIN w.pid THEN w.pid[prev] ELSE 0
      IN  [w EXCEPT !.tasks[t].stack[Len(w.tasks[t].stack)] =
                        [fr EXCEPT !.pc = "awaitSubmit", !.uid = uid, !.tid = tid],
                    !.requests = Append(@, [op |-> IF parsed.isThreadStart
                                                   THEN "topic" ELSE "reply",
                                            pid |-> fr.pid, k |-> fr.k, tid |-> tid,
                                            toPid |-> toPid, uid |-> uid,
                                            caller |-> fr.caller])])

\* faulty variant of preparePostForRequest: the topic of a reply is looked up in the
\* post-id mapping
preparePostForRequestPostAsTopic(w0, t, uid) ==
    Bind(w0, LAMBDA w :
      LET fr     == Top(w, t)
          parsed == ParsedPost(fr.pid, fr.k)
          prev   == parsed.previous
          tid    == IF prev \in DOMAIN w.pid THEN w.pid[prev] ELSE 0
          toPid  == IF prev \in DOMAIN w.pid THEN w.pid[prev] ELSE 0
      IN  IF parsed.isThreadStart
          THEN [w EXCEPT !.tasks[t].stack[Len(w.tasks[t].stack)] =
                             [fr EXCEPT !.pc = "awaitSubmit", !.uid = uid],
                         !.requests = Append(@, [op |-> "topic", pid |-> fr.pid,
                                                 k |-> fr.k, tid |-> 0, toPid |-> 0,
                                                 uid |-> uid, caller |-> fr.caller])]
          ELSE IF tid = 0
          THEN ThrowError(w, t, "no topic id")
          ELSE [w EXCEPT !.tasks[t].stack[Len(w.tasks[t].stack)] =
                             [fr EXCEPT !.pc = "awaitSubmit", !.uid = uid, !.tid = tid],
                         !.requests = Append(@, [op |-> "reply", pid |-> fr.pid,
                                                 k |-> fr.k, tid |-> tid, toPid |-> toPid,
                                                 uid |-> uid, caller |-> fr.caller])])

\* preparePostForRequest after the uid is known, and the fetch of migrateTetraPost
preparePostForRequest(w0, t, uid) ==
    Bind(w0, LAMBDA w :
      LET fr     == Top(w, t)
          parsed == ParsedPost(fr.pid, fr.k)
          prev   == parsed.previous
          tid    == IF prev \in DOMAIN w.tid THEN w.tid[prev] ELSE 0
          toPid  == IF prev \in DOMAIN w.pid THEN w.pid[prev] ELSE 0
      IN  IF parsed.isThreadStart
          THEN [w EXCEPT !.tasks[t].stack[Len(w.tasks[t].stack)] =
                             [fr EXCEPT !.pc = "awaitSubmit", !.uid = uid],
                         !.requests = Append(@, [op |-> "topic", pid |-> fr.pid,
                                                 k |-> fr.k, tid |-> 0, toPid |-> 0,
                                                 uid |-> uid, caller |-> fr.caller])]
          ELSE IF tid = 0
          THEN \* throw new Error(`Cannot find topic id for Tetra post ...`)
               ThrowError(w, t, "no topic id")
          ELSE [w EXCEPT !.tasks[t].stack[Len(w.tasks[t].stack)] =
                             [fr EXCEPT !.pc = "awaitSubmit", !.uid = uid, !.tid = tid],
                         !.requests = Append(@, [op |-> "reply", pid |-> fr.pid,
                                                 k |-> fr.k, tid |-> tid, toPid |-> toPid,
                                                 uid |-> uid, caller |-> fr.caller])])

\* the fallback of part_002: the Anonymous promise has settled
ResumeAnon(w0, t) ==
    Bind(w0, LAMBDA w :
      IF w.users["Anonymous"].st = "ok"
      THEN preparePostForRequest(w, t, w.users["Anonymous"].uid)
      ELSE Throw(w, t))

\* faulty variant of ResumeUser: no .catch, a rejected creation fails the post
\* whatever the reason
ResumeUserNoFallback(w0, t) ==
    Bind(w0, LAMBDA w :
      LET fr == Top(w, t)
          u  == ParsedPost(fr.pid, fr.k).username
      IN  IF w.users[u].st = "ok"
          THEN preparePostForRequest(w, t, w.users[u].uid)
          ELSE Throw(w, t))

\* await getOrCreateUserId(parsed.username, ...) continues: the promise has settled
ResumeUser(w0, t) ==
    Bind(w0, LAMBDA w :
      LET fr == Top(w, t)
          u  == ParsedPost(fr.pid, fr.k).username
      IN  IF w.users[u].st = "ok"
          THEN preparePostForRequest(w, t, w.users[u].uid)
          ELSE IF w.users[u].st = "invalid" /\ version = "chunked"
          THEN \* .catch: err.message.includes("Invalid Username")
               Bind(SetTop(getOrCreateUserId(w, "Anonymous"), t,
                           [fr EXCEPT !.pc = "awaitAnon"]),
                    LAMBDA w1 : IF Settled(w1.users["Anonymous"].st)
                                THEN ResumeAnon(w1, t) ELSE w1)
          ELSE Throw(w, t))

\* a call of migrateTetraPost(p, parsed) by task t, up to its first wait for I/O
migrateTetraPost(w0, t, p, k) ==
    Bind(w0, LAMBDA w :
      LET u  == ParsedPost(p, k).username
          \* who called: the gate of the batch (0), the continuation action of p
          \* itself, or the loop over the next ids of the post below on the stack
          caller == IF k > 0 THEN p
                    ELSE IF w.tasks[t].stack = <<>> THEN 0 ELSE Top(w, t).pid
          fr == [pid |-> p, k |-> k, pc |-> "awaitUser", i |-> 0, tid |-> 0, uid |-> 0,
                 caller |-> caller]
      IN  Bind([getOrCreateUserId(w, u) EXCEPT !.tasks[t].stack = Append(@, fr),
                                               !.attempted = @ \cup {p}],
               LAMBDA w2 : IF Settled(w2.users[u].st) THEN ResumeUser(w2, t) ELSE w2))

-----------------------------------------------------------------------------
(* migrateTetraPost after the submission.                                  *)

\* faulty variant of NextIndex: the test (nextPid in allParsed) is left out
NextIndexUnfiltered(w, nxt, i) ==
    IF i < Len(nxt) THEN i + 1 ELSE 0

\* faulty variant of NextIndex: the loop jumps to the last next id
NextIndexLast(w, nxt, i) ==
    LET at == {j \in (i + 1)..Len(nxt) : nxt[j] \in AllParsed(w)}
    IN  IF at = {} THEN 0 ELSE CHOOSE j \in at : \A l \in at : l <= j

\* the first index after i of a next id that is a key of allParsed, 0 if none
NextIndex(w, nxt, i) ==
    LET at == {j \in (i + 1)..Len(nxt) : nxt[j] \in AllParsed(w)}
    IN  IF at = {} THEN 0 ELSE CHOOSE j \in at : \A l \in at : j <= l

\* for (const nextPid of reqData.next) { ... }, resumed after index Top.i, and the
\* return of migrateTetraPost into the caller that awaits it
RECURSIVE NextLoop(_, _)
NextLoop(w0, t) ==
    Bind(w0, LAMBDA w :
      LET fr     == Top(w, t)
          parsed == ParsedPost(fr.pid, fr.k)
          depth  == Len(w.tasks[t].stack)
      IN  IF ~parsed.hasNext
          THEN \* reqData.next is null or undefined: TypeError, not iterable
               ThrowError(w, t, "not iterable")
          ELSE Bind(NextIndex(w, parsed.next, fr.i), LAMBDA j :
            IF j # 0
            THEN IF w.parsed[parsed.next[j]] = "done"
                 THEN migrateTetraPost(
                          SetTop(w, t, [fr EXCEPT !.pc = "awaitChild", !.i = j]),
                          t, parsed.next[j], 0)
                 ELSE \* await allParsed[nextPid]: a lazy promise starts reading now
                      [w EXCEPT !.tasks[t].stack[depth] =
                                    [fr EXCEPT !.pc = "awaitParse", !.i = j],
                                !.parsed[parsed.next[j]] = "reading"]
            ELSE IF depth = 1
            THEN [w EXCEPT !.tasks[t].st = "ok", !.tasks[t].stack = <<>>]
            ELSE NextLoop([w EXCEPT !.tasks[t].stack = SubSeq(@, 1, depth - 1)], t)))

\* faulty variant of registerMigrated: the mappings are replaced by copies that
\* hold the new entry alone
registerMigratedAlone(w, tetraPid, tid, pid) ==
    [w EXCEPT !.tid = (tetraPid :> tid),
              !.pid = (tetraPid :> pid),
              !.nextId = pid + 1]

\* the basic responseAction of a topic or a reply; the target hands out ids in order
\* tetraPid2nodeTid[tetraPid] = tid; tetraPid2nodePid[tetraPid] = pid
registerMigrated(w, tetraPid, tid, pid) ==
    [w EXCEPT !.tid = (tetraPid :> tid) @@ @,
              !.pid = (tetraPid :> pid) @@ @,
              !.nextId = pid + 1]

\* faulty variant of responseAction: the request that sets the tags of a post
\* without overflow is sent and not awaited
responseActionTagsNotAwaited(w0, t) ==
    Bind(w0, LAMBDA w :
      LET fr     == Top(w, t)
          parsed == ParsedPost(fr.pid, fr.k)
          topic  == parsed.isThreadStart
          tid    == IF topic THEN w.nextId ELSE fr.tid
          pid    == IF topic THEN w.nextId + 1 ELSE w.nextId
          rest   == splitContent(parsed.content).rest
          tagReq == [op |-> "tags", pid |-> fr.pid, k |-> fr.k, tid |-> tid,
                     toPid |-> 0, uid |-> 0, caller |-> fr.caller]
      IN  Bind(registerMigrated(w, fr.pid, tid, pid),
               LAMBDA w1 :
            IF rest # <<>> /\ parsed.tags
            THEN \* the tag action calls the continuation action without awaiting
                 \* it: the continuation runs as a chain of its own
                 migrateTetraPost(
                     [SetTop(w1, t, [fr EXCEPT !.pc = "awaitTags"])
                        EXCEPT !.tasks = Append(@, [pid |-> 0, st |-> "run",
                                                    stack |-> <<>>, rejected |-> FALSE,
                                                    cause |-> "none"]),
                               !.requests = Append(@, tagReq)],
                     Len(w1.tasks) + 1, fr.pid, fr.k + 1)
            ELSE IF rest # <<>>
            THEN migrateTetraPost(SetTop(w1, t, [fr EXCEPT !.pc = "awaitCont"]),
                                  t, fr.pid, fr.k + 1)
            ELSE IF parsed.tags
            THEN NextLoop([w1 EXCEPT !.requests = Append(@, tagReq)], t)
            ELSE NextLoop(w1, t)))

\* res.status == 200 and resBody.status.code == 'ok': await reqData.responseAction(...)
responseAction(w0, t) ==
    Bind(w0, LAMBDA w :
      LET fr     == Top(w, t)
          parsed == ParsedPost(fr.pid, fr.k)
          topic  == parsed.isThreadStart
          tid    == IF topic THEN w.nextId ELSE fr.tid
          pid    == IF topic THEN w.nextId + 1 ELSE w.nextId
          rest   == splitContent(parsed.content).rest
          tagReq == [op |-> "tags", pid |-> fr.pid, k |-> fr.k, tid |-> tid,
                     toPid |-> 0, uid |-> 0, caller |-> fr.caller]
      IN  Bind(registerMigrated(w, fr.pid, tid, pid),
               LAMBDA w1 :
            IF rest # <<>> /\ parsed.tags
            THEN \* the tag action calls the continuation action without awaiting
                 \* it: the continuation runs as a chain of its own
                 migrateTetraPost(
                     [SetTop(w1, t, [fr EXCEPT !.pc = "awaitTags"])
                        EXCEPT !.tasks = Append(@, [pid |-> 0, st |-> "run",
                                                    stack |-> <<>>, rejected |-> FALSE,
                                                    cause |-> "none"]),
                               !.requests = Append(@, tagReq)],
                     Len(w1.tasks) + 1, fr.pid, fr.k + 1)
            ELSE IF rest # <<>>
            THEN migrateTetraPost(SetTop(w1, t, [fr EXCEPT !.pc = "awaitCont"]),
                                  t, fr.pid, fr.k + 1)
            ELSE IF parsed.tags
            THEN [w1 EXCEPT !.tasks[t].stack[Len(w1.tasks[t].stack)] =
                                [fr EXCEPT !.pc = "awaitTags"],
                            !.requests = Append(@, tagReq)]
            ELSE NextLoop(w1, t)))

-----------------------------------------------------------------------------
(* Promise reactions that one I/O event makes runnable.                    *)

\* once the users[u] promise has settled, every chain that awaits it continues
\* (after a lookup that found no account the promise follows createUser's)
RECURSIVE ResumeUsers(_, _, _)
ResumeUsers(w0, u, t) ==
    Bind(w0, LAMBDA w :
      IF t > Len(w.tasks) \/ ~Settled(w.users[u].st) THEN w
      ELSE IF w.tasks[t].st # "run" THEN ResumeUsers(w, u, t + 1)
      ELSE IF Top(w, t).pc = "awaitUser"
              /\ ParsedPost(Top(w, t).pid, Top(w, t).k).username = u
      THEN ResumeUsers(ResumeUser(w, t), u, t + 1)
      ELSE IF Top(w, t).pc = "awaitAnon" /\ u = "Anonymous"
      THEN ResumeUsers(ResumeAnon(w, t), u, t + 1)
      ELSE ResumeUsers(w, u, t + 1))

\* faulty variant of Gate: only thread starts pass, a reply to a post that is
\* already migrated is skipped as well
GateThreadStartsOnly(w0, t) ==
    Bind(w0, LAMBDA w :
      LET p      == w.tasks[t].pid
          parsed == ParsedPost(p, 0)
          skip   == \/ ~parsed.isThreadStart
                    \/ (version = "chunked" /\ p \in DOMAIN w.pid)
      IN  IF skip
          THEN [w EXCEPT !.tasks[t].st = "deferred"]
          ELSE migrateTetraPost([w EXCEPT !.tasks[t].st = "run"], t, p, 0))

\* the gate of the dir.files callback, run when the parse promise of the task's post
\* has resolved
Gate(w0, t) ==
    Bind(w0, LAMBDA w :
      LET p      == w.tasks[t].pid
          parsed == ParsedPost(p, 0)
          skip   == \/ ~(parsed.isThreadStart \/ parsed.previous \in DOMAIN w.pid)
                    \/ (version = "chunked" /\ p \in DOMAIN w.pid)
      IN  IF skip
          THEN \* 'Cannot be migrated yet', swallowed by the catch
               [w EXCEPT !.tasks[t].st = "deferred"]
          ELSE migrateTetraPost([w EXCEPT !.tasks[t].st = "run"], t, p, 0))

\* the parse promise of post p resolved: the gate of its task, then the recursions
\* that await allParsed[p].  (The mappings do not change inside this callback, so the
\* order of these reactions changes only the order of the requests they issue.)
RECURSIVE ResumeParse(_, _, _)
ResumeParse(w0, p, t) ==
    Bind(w0, LAMBDA w :
      IF t > Len(w.tasks) THEN w
      ELSE IF w.tasks[t].st # "run" THEN ResumeParse(w, p, t + 1)
      ELSE IF Top(w, t).pc = "awaitParse"
              /\ ParsedPost(Top(w, t).pid, Top(w, t).k).next[Top(w, t).i] = p
      THEN ResumeParse(
               migrateTetraPost(SetTop(w, t, [Top(w, t) EXCEPT !.pc = "awaitChild"]),
                                t, p, 0),
               p, t + 1)
      ELSE ResumeParse(w, p, t + 1))

RECURSIVE Gates(_, _)
Gates(w0, ts) ==
    Bind(w0, LAMBDA w :
      IF ts = {} THEN w
      ELSE Bind(CHOOSE x \in ts : \A y \in ts : x <= y, LAMBDA t :
             Gates(IF w.tasks[t].st = "parse" /\ w.parsed[w.tasks[t].pid] = "done"
                   THEN Gate(w, t) ELSE w,
                   ts \ {t})))

-----------------------------------------------------------------------------
(* The dir.files callback: batches, Promise.all, the final write.          *)

\* the tasks of the migrations array the callback currently awaits
Batch(w, d) ==
    LET top == {t \in 1..Len(w.tasks) : w.tasks[t].pid # 0}
    IN  IF version = "app" THEN top
        ELSE {t \in top : (t - 1) \div chunkSize = d.chunk}

NChunks(w) ==
    LET n == Cardinality({t \in 1..Len(w.tasks) : w.tasks[t].pid # 0})
    IN  (n + chunkSize - 1) \div chunkSize

\* migrations.push(postPaths[tetraPid].then(gate)...) for the chunk: a lazy parse
\* promise starts reading, a resolved one runs the gate right away
StartChunk(w0, d) ==
    Bind(w0, LAMBDA w :
      Bind(Batch(w, d), LAMBDA ts :
        Gates([w EXCEPT
                 !.tasks  = [t \in 1..Len(w.tasks) |->
                               IF t \in ts THEN [w.tasks[t] EXCEPT !.st = "parse"]
                               ELSE w.tasks[t]],
                 !.parsed = [p \in DOMAIN w.parsed |->
                               IF w.parsed[p] = "lazy" /\ \E t \in ts : w.tasks[t].pid = p
                               THEN "reading" ELSE w.parsed[p]]],
              ts)))

\* faulty variant of StartCleanup: only the entries loaded from the mapping file
\* are written back
StartCleanupLoadedOnly(w, d) ==
    [d EXCEPT !.pc = "cleanup", !.write = "pending",
              !.snapshot = [tetraPid2nodePid |-> [p \in d.alreadyMigrated |-> w.pid[p]],
                            tetraPid2nodeTid |-> [p \in d.alreadyMigrated |-> w.tid[p]]],
              !.restore = "running", !.restoreIssued = 1]

\* cleanUp() of part_002, the final Promise.all of app.mjs: writeFile is called with
\* the mappings as they are now, and the first restoring request is sent
StartCleanup(w, d) ==
    [d EXCEPT !.pc = "cleanup", !.write = "pending",
              !.snapshot = [tetraPid2nodePid |-> w.pid, tetraPid2nodeTid |-> w.tid],
              !.restore = "running", !.restoreIssued = 1]

\* faulty variant of allSettled: the finally block does not wait for the batch
allSettledNotAwaited(w, ts) == TRUE

\* await Promise.allSettled(migrations): every task of the batch is fulfilled
\* (migrated, or skipped for now by the gate) or rejected
allSettled(w, ts) ==
    \A t \in ts : w.tasks[t].st \in {"ok", "deferred", "failed"}

\* what the callback does once the tasks have changed: Promise.all(migrations)
\* rejects with the first failed task and resolves when all are fulfilled
RECURSIVE React(_, _)
React(w0, d0) ==
    Bind(w0, LAMBDA w : Bind(d0, LAMBDA d : Bind(Batch(w, d), LAMBDA ts :
      IF d.pc = "migrate" /\ \E t \in ts : w.tasks[t].st = "failed"
      THEN IF version = "app"
           THEN \* the callback's promise rejects; nothing after the await runs
                [w |-> w, d |-> [d EXCEPT !.pc = "failed", !.error = "migration"]]
           ELSE \* finally { await Promise.allSettled(migrations); ... }
                React(w, [d EXCEPT !.pc = "settle", !.error = "migration"])
      ELSE IF d.pc = "migrate" /\ \A t \in ts : w.tasks[t].st \in {"ok", "deferred"}
      THEN IF version = "chunked" /\ d.chunk + 1 < NChunks(w)
           THEN Bind([d EXCEPT !.chunk = @ + 1], LAMBDA d1 :
                  React(StartChunk(w, d1), d1))
           ELSE [w |-> w, d |-> StartCleanup(w, d)]
      ELSE IF d.pc = "settle" /\ allSettled(w, ts)
      THEN [w |-> w, d |-> StartCleanup(w, d)]
      ELSE [w |-> w, d |-> d])))

\* the state after a callback: its heap and the position of the dir.files callback
Commit(w, d) ==
    \E r \in {React(w, d)} :
        /\ users' = r.w.users
        /\ lookups' = r.w.lookups
        /\ creates' = r.w.creates
        /\ tetraPid2nodePid' = r.w.pid
        /\ tetraPid2nodeTid' = r.w.tid
        /\ parsedTetra' = r.w.parsed
        /\ tasks' = r.w.tasks
        /\ requests' = r.w.requests
        /\ nextId' = r.w.nextId
        /\ attempted' = r.w.attempted
        /\ driver' = r.d
        /\ UNCHANGED <<version, scenario, call>>

-----------------------------------------------------------------------------
(* Initial state: the script starts, the first relaxing request is sent.   *)

NoFile == [present |-> FALSE, tetraPid2nodePid |-> EmptyMap, tetraPid2nodeTid |-> EmptyMap]

FileOf(S) == [present |-> TRUE, tetraPid2nodePid |-> [p \in S |-> p],
              tetraPid2nodeTid |-> [p \in S |-> p]]

\* no pure function is under evaluation
NoCall == [fn |-> "none"]

Init ==
    /\ version \in {"app", "chunked"}
    /\ scenario \in Scenarios
    /\ file \in {NoFile} \cup {FileOf(S) : S \in MappingFiles(scenario)}
    /\ driver = [pc |-> "relax", chunk |-> 0, relaxed |-> 0, error |-> "none",
                 alreadyMigrated |-> {},
                 write |-> "none",
                 snapshot |-> [tetraPid2nodePid |-> EmptyMap, tetraPid2nodeTid |-> EmptyMap],
                 restore |-> "none", restoreIssued |-> 0, restored |-> 0]
    /\ users = [u \in Usernames |-> [st |-> "none", uid |-> 0]]
    /\ lookups = [u \in Usernames |-> 0]
    /\ creates = [u \in Usernames |-> 0]
    /\ tetraPid2nodePid = EmptyMap
    /\ tetraPid2nodeTid = EmptyMap
    /\ parsedTetra = [p \in Pids |-> "lazy"]
    /\ tasks = <<>>
    /\ requests = <<>>
    /\ nextId = 5
    /\ attempted = {}
    /\ call = NoCall

-----------------------------------------------------------------------------
(* Actions: one I/O event each.                                            *)

\* the response to a PUT of the relaxing alterAdminSettings call at the top level
RelaxResponse(ok) ==
    /\ driver.pc = "relax"
    /\ driver' = IF ~ok THEN [driver EXCEPT !.pc = "failed", !.error = "relax"]
                 ELSE IF driver.relaxed + 1 = NSettings
                 THEN [driver EXCEPT !.relaxed = @ + 1, !.pc = "load"]
                 ELSE [driver EXCEPT !.relaxed = @ + 1]
    /\ UNCHANGED <<version, scenario, users, lookups, creates, tetraPid2nodePid,
                   tetraPid2nodeTid, parsedTetra, tasks, requests, nextId, attempted, file,
                   call>>

\* faulty variant of LoadMapping: the rejection of readFile is not caught
LoadMappingUncaught ==
    /\ driver.pc = "load"
    /\ IF file.present
       THEN /\ tetraPid2nodePid' = file.tetraPid2nodePid
            /\ tetraPid2nodeTid' = file.tetraPid2nodeTid
            /\ driver' = [driver EXCEPT !.pc = "enumerate",
                                        !.alreadyMigrated = DOMAIN file.tetraPid2nodePid]
       ELSE /\ UNCHANGED <<tetraPid2nodePid, tetraPid2nodeTid>>
            /\ driver' = [driver EXCEPT !.pc = "failed", !.error = "load"]
    /\ UNCHANGED <<version, scenario, users, lookups, creates, parsedTetra, tasks,
                   requests, nextId, attempted, file,
                   call>>

\* fs.readFile(mapping_file) settles: the mappings are replaced by the file's, a
\* missing file is caught; then dir.files is called
LoadMapping ==
    /\ driver.pc = "load"
    /\ IF file.present
       THEN /\ tetraPid2nodePid' = file.tetraPid2nodePid
            /\ tetraPid2nodeTid' = file.tetraPid2nodeTid
       ELSE UNCHANGED <<tetraPid2nodePid, tetraPid2nodeTid>>
    /\ driver' = [driver EXCEPT !.pc = "enumerate",
                                !.alreadyMigrated = IF file.present
                                                    THEN DOMAIN file.tetraPid2nodePid
                                                    ELSE {}]
    /\ UNCHANGED <<version, scenario, users, lookups, creates, parsedTetra, tasks,
                   requests, nextId, attempted, file,
                   call>>

\* tetraPidsSorted / Object.entries(parsedTetra): the posts isMigrated does not skip
RECURSIVE SortedSeq(_)
SortedSeq(S) ==
    IF S = {} THEN <<>>
    ELSE LET m == CHOOSE x \in S : \A y \in S : x <= y
         IN  <<m>> \o SortedSeq(S \ {m})

\* dir.files calls back
Enumerate(ok) ==
    /\ driver.pc = "enumerate"
    /\ IF ~ok
       THEN \* if (err) throw err;
            /\ driver' = [driver EXCEPT !.pc = "failed", !.error = "enumerate"]
            /\ UNCHANGED <<version, scenario, users, lookups, creates, tetraPid2nodePid,
                           tetraPid2nodeTid, parsedTetra, tasks, requests, nextId, attempted,
                   call>>
       ELSE LET todo == SortedSeq({p \in Pids : p \notin DOMAIN tetraPid2nodePid})
                w1   == [World EXCEPT
                           !.tasks = [t \in 1..Len(todo) |->
                                        [pid |-> todo[t], stack |-> <<>>, rejected |-> FALSE,
                                         cause |-> "none",
                                         st |-> IF version = "app" THEN "parse" ELSE "idle"]],
                           !.parsed = [p \in Pids |->
                                         IF version = "app" /\ p \notin DOMAIN tetraPid2nodePid
                                         THEN "reading" ELSE "lazy"]]
                d1   == [driver EXCEPT !.pc = "migrate"]
            IN  Commit(IF version = "app" THEN w1 ELSE StartChunk(w1, d1), d1)
    /\ UNCHANGED file

\* fs.readFile of post p finishes and parseTetraPost has run
ParseDone(p) ==
    /\ parsedTetra[p] = "reading"
    /\ LET w1 == [World EXCEPT !.parsed[p] = "done"]
           ts == {t \in 1..Len(tasks) : tasks[t].pid = p}
       IN  Commit(ResumeParse(Gates(w1, ts), p, 1), driver)
    /\ UNCHANGED file

\* the response to GET /api/user/username/<u>
LookupResponse(u, outcome) ==
    /\ users[u].st = "lookup"
    /\ outcome = "found" => u \in ExistingAccounts
    /\ outcome = "missing" => u \notin ExistingAccounts
    /\ LET w1 == CASE outcome = "found" ->
                        [World EXCEPT !.users[u] = [st |-> "ok", uid |-> 1]]
                   [] outcome = "missing" ->
                        \* return createUser(username, email)
                        [World EXCEPT !.users[u].st = "create", !.creates[u] = @ + 1]
                   [] outcome = "error" ->
                        [World EXCEPT !.users[u].st = "error"]
       IN  Commit(ResumeUsers(w1, u, 1), driver)
    /\ UNCHANGED file

\* the response to POST /users
CreateUserResponse(u, outcome) ==
    /\ users[u].st = "create"
    /\ outcome = "invalid" => u \in RejectableNames
    /\ LET w1 == CASE outcome = "ok" ->
                        [World EXCEPT !.users[u] = [st |-> "ok", uid |-> nextId],
                                      !.nextId = @ + 1]
                   [] outcome = "invalid" -> [World EXCEPT !.users[u].st = "invalid"]
                   [] outcome = "error" -> [World EXCEPT !.users[u].st = "error"]
       IN  Commit(ResumeUsers(w1, u, 1), driver)
    /\ UNCHANGED file

\* faulty variant of SubmitResponse: the mappings are recorded before the status of
\* the response is looked at
SubmitResponseRecordFirst(t, outcome) ==
    /\ t \in 1..Len(tasks)
    /\ tasks[t].st = "run"
    /\ Top(World, t).pc = "awaitSubmit"
    /\ LET fr == Top(World, t)
           w1 == [World EXCEPT !.tid = (fr.pid :> World.nextId) @@ @,
                               !.pid = (fr.pid :> World.nextId) @@ @,
                               !.nextId = @ + 1]
       IN  Commit(IF outcome = "ok" THEN responseAction(World, t) ELSE Reject(w1, t),
                  driver)
    /\ UNCHANGED file

\* the response to the POST of a post (topic or reply) of task t
SubmitResponse(t, outcome) ==
    /\ t \in 1..Len(tasks)
    /\ tasks[t].st = "run"
    /\ Top(World, t).pc = "awaitSubmit"
    /\ Commit(IF outcome = "ok" THEN responseAction(World, t) ELSE Reject(World, t),
              driver)
    /\ UNCHANGED file

\* the fetch of PUT /topics/<tid>/tags settles (its status is not looked at)
TagsResponse(t, ok) ==
    /\ t \in 1..Len(tasks)
    /\ tasks[t].st = "run"
    /\ Top(World, t).pc = "awaitTags"
    /\ Commit(IF ok THEN NextLoop(World, t) ELSE Reject(World, t), driver)
    /\ UNCHANGED file

\* the two promises of the final Promise.all have settled
Finish(d) ==
    IF d.write \in {"ok", "failed"} /\ d.restore \in {"ok", "failed"}
    THEN [d EXCEPT !.pc = IF d.error # "none" \/ d.write = "failed" \/ d.restore = "failed"
                          THEN "failed" ELSE "done"]
    ELSE d

\* fs.writeFile(mapping_file, ...) settles
WriteDone(ok) ==
    /\ driver.pc = "cleanup"
    /\ driver.write = "pending"
    /\ file' = IF ok THEN [present |-> TRUE,
                           tetraPid2nodePid |-> driver.snapshot.tetraPid2nodePid,
                           tetraPid2nodeTid |-> driver.snapshot.tetraPid2nodeTid]
               ELSE file
    /\ driver' = Finish([driver EXCEPT !.write = IF ok THEN "ok" ELSE "failed"])
    /\ UNCHANGED <<version, scenario, users, lookups, creates, tetraPid2nodePid,
                   tetraPid2nodeTid, parsedTetra, tasks, requests, nextId, attempted,
                   call>>

\* the response to a PUT of the restoring alterAdminSettings call
RestoreResponse(ok) ==
    /\ driver.pc = "cleanup"
    /\ driver.restore = "running"
    /\ driver' = Finish(
           IF ~ok THEN [driver EXCEPT !.restore = "failed"]
           ELSE IF driver.restored + 1 = NSettings
           THEN [driver EXCEPT !.restored = @ + 1, !.restore = "ok"]
           ELSE [driver EXCEPT !.restored = @ + 1, !.restoreIssued = @ + 1])
    /\ UNCHANGED <<version, scenario, users, lookups, creates, tetraPid2nodePid,
                   tetraPid2nodeTid, parsedTetra, tasks, requests, nextId, attempted, file,
                   call>>

Next ==
    \/ \E ok \in BOOLEAN : RelaxResponse(ok)
    \/ LoadMapping
    \/ \E ok \in BOOLEAN : Enumerate(ok)
    \/ \E p \in Pids : ParseDone(p)
    \/ \E u \in Usernames, o \in {"found", "missing", "error"} : LookupResponse(u, o)
    \/ \E u \in Usernames, o \in {"ok", "invalid", "error"} : CreateUserResponse(u, o)
    \/ \E t \in 1..Len(tasks), o \in {"ok", "non200", "notok"} : SubmitResponse(t, o)
    \/ \E t \in 1..Len(tasks), ok \in BOOLEAN : TagsResponse(t, ok)
    \/ \E ok \in BOOLEAN : WriteDone(ok)
    \/ \E ok \in BOOLEAN : RestoreResponse(ok)

Spec == Init /\ [][Next]_vars

-----------------------------------------------------------------------------
(* Observations used by the properties.                                    *)

\* the requests that submit a post: topic creations and replies
PostRequests == {n \in 1..Len(requests) : requests[n].op \in {"topic", "reply"}}

\* nothing is in flight any more: the run is over
RunOver ==
    /\ driver.pc \in {"done", "failed"}
    /\ \A t \in 1..Len(tasks) : tasks[t].st \notin {"run", "parse"}
    /\ \A u \in Usernames : users[u].st \notin {"lookup", "create"}
    /\ \A p \in Pids : parsedTetra[p] # "reading"

\* the dir.files callback got its file list and built the migration tasks
Started == driver.pc \in {"migrate", "settle", "cleanup", "done"} \/ driver.error = "migration"

\* request n submits the post itself (k = 0) or an overflow continuation (k > 0)
PostOf(n) == ParsedPost(requests[n].pid, requests[n].k)

\* the top-level record of legacy id p
Record(p) == ParsedPost(p, 0)

-----------------------------------------------------------------------------
(* Properties.                                                             *)

\* C1 - Gating: whenever a request that submits a post is sent (by the batch, by
\* the loop over next ids or by an overflow continuation) and the post's previous
\* id is not empty, that previous id is a key of tetraPid2nodeTid at that moment.
GatingInvariant ==
    [][\A n \in (Len(requests) + 1)..Len(requests') :
          LET r    == requests'[n]
              prev == ParsedPost(r.pid, r.k).previous
          IN  (r.op \in {"topic", "reply"} /\ prev # 0)
                  => prev \in DOMAIN tetraPid2nodeTid']_vars

\* C1 witness: posts with a previous id have been submitted on all three paths
GatingWitness ==
    /\ \E n \in PostRequests : PostOf(n).previous # 0 /\ requests[n].caller = 0
    /\ \E n \in PostRequests : /\ PostOf(n).previous # 0 /\ requests[n].k = 0
                               /\ requests[n].caller # 0
    /\ \E n \in PostRequests : requests[n].k > 0

\* C2 - Resumability: no request ever submits a legacy id that was a key of the
\* post-id mapping loaded from the mapping file, and migrateTetraPost is never
\* called for one.
Resumability ==
    /\ \A n \in PostRequests : requests[n].pid \notin driver.alreadyMigrated
    /\ attempted \cap driver.alreadyMigrated = {}

\* C2 witness: post 2 was in the loaded mapping, and the loop over the next ids
\* <<2, 3>> of post 1 has passed it and submitted post 3
ResumabilityWitness ==
    /\ driver.alreadyMigrated = {2}
    /\ \E n \in PostRequests : requests[n].pid = 3 /\ requests[n].caller = 1

\* C3 - No post stays deferred: when the run is over, migrateTetraPost has been
\* called for every post to migrate that is a thread start or whose previous post
\* is in the post-id mapping.
NoPostStaysDeferred ==
    RunOver =>
        \A p \in AllParsed(World) :
            (Record(p).isThreadStart \/ Record(p).previous \in DOMAIN tetraPid2nodePid)
                => p \in attempted

\* C4 - User resolution: for every username at most one lookup and at most one
\* create-user request are sent, and all posts of that username are submitted with
\* the same uid.
SingleUserResolution ==
    /\ \A u \in Usernames : lookups[u] <= 1 /\ creates[u] <= 1
    /\ \A m, n \in PostRequests :
           PostOf(m).username = PostOf(n).username => requests[m].uid = requests[n].uid

\* C4 witness: two migrations running at the same time for posts of a username
\* without account have both got their uid, after one create-user request
SingleUserResolutionWitness ==
    \E s, t \in 1..Len(tasks) :
        /\ s # t
        /\ tasks[s].st = "run" /\ tasks[t].st = "run"
        /\ Top(World, s).pc = "awaitSubmit" /\ Top(World, t).pc = "awaitSubmit"
        /\ Record(Top(World, s).pid).username = "b"
        /\ Record(Top(World, t).pid).username = "b"
        /\ Top(World, s).uid = Top(World, t).uid
        /\ creates["b"] = 1

\* C5 - Guaranteed finalizer: when a run that started migrating is over, writeFile
\* has been called for the mapping file.
GuaranteedFinalizer ==
    (RunOver /\ Started) => driver.write # "none"

\* C6 - Bracketed settings: when a run that relaxed an admin setting is over, the
\* restoring alterAdminSettings call has sent a request.
BracketedSettings ==
    (RunOver /\ driver.relaxed > 0) => driver.restoreIssued > 0

\* C7 - Error isolation: the failure of a migration does not reject the batch, and
\* when the run is over migrateTetraPost has been called for every thread start
\* to migrate.
ErrorIsolation ==
    /\ driver.error # "migration"
    /\ (RunOver /\ Started) =>
           \A p \in AllParsed(World) : Record(p).isThreadStart => p \in attempted

\* C8 - Failed submission: a response to the POST of a post that is not 200 or
\* whose status code is not 'ok' makes migrateTetraPost throw and leaves both
\* mappings as they were.
FailedSubmissionLeavesMappings ==
    [][\A t \in 1..Len(tasks), o \in {"non200", "notok"} :
          SubmitResponse(t, o) =>
              /\ tasks'[t].st = "failed"
              /\ UNCHANGED <<tetraPid2nodePid, tetraPid2nodeTid>>]_vars

\* C8 witness: the POST of a topic was answered with a failure: the task has
\* failed and the post is in neither mapping
FailedSubmissionWitness ==
    \E t \in 1..Len(tasks) :
        /\ tasks[t].st = "failed"
        /\ \E n \in PostRequests : /\ requests[n].pid = tasks[t].pid
                                   /\ requests[n].op = "topic"
        /\ tasks[t].pid \notin DOMAIN tetraPid2nodePid
        /\ tasks[t].pid \notin DOMAIN tetraPid2nodeTid

\* C9 - Completion order: the tags request of a post with an overflow remainder
\* is sent only after the continuation has been submitted.
CompletionOrder ==
    \A n \in 1..Len(requests) :
        (requests[n].op = "tags" /\ splitContent(PostOf(n).content).rest # <<>>)
            => \E m \in 1..(n - 1) : /\ requests[m].op = "reply"
                                     /\ requests[m].pid = requests[n].pid
                                     /\ requests[m].k = requests[n].k + 1

\* C10 - Scenario A: a post submitted by the loop over the next ids of a parent is
\* submitted after the parent was submitted and recorded, as a reply into the
\* parent's topic when the parent is its previous post, and after every next id
\* to migrate that is listed before it was submitted by the same loop.
ScenarioAOrder ==
    \A n \in PostRequests :
        LET r      == requests[n]
            parent == r.caller
            nxt    == Record(parent).next
        IN  (r.k = 0 /\ parent # 0) =>
                /\ parent \in DOMAIN tetraPid2nodeTid
                /\ parent \in DOMAIN tetraPid2nodePid
                /\ \E m \in 1..(n - 1) : requests[m].pid = parent /\ requests[m].k = 0
                /\ Record(r.pid).previous = parent =>
                       /\ r.op = "reply"
                       /\ r.tid = tetraPid2nodeTid[parent]
                /\ \A i, j \in 1..Len(nxt) :
                       (i < j /\ nxt[j] = r.pid /\ nxt[i] \in AllParsed(World)) =>
                           \E m \in 1..(n - 1) : /\ requests[m].pid = nxt[i]
                                                 /\ requests[m].k = 0
                                                 /\ requests[m].caller = parent

\* C10 witness: the thread start 1 with next ids <<2, 3>> was submitted as a topic,
\* then its loop submitted 2 and afterwards 3
ScenarioAWitness ==
    /\ scenario = "tree"
    /\ \E l, m, n \in PostRequests :
           /\ l < m /\ m < n
           /\ requests[l].pid = 1 /\ requests[l].op = "topic"
           /\ requests[m].pid = 2 /\ requests[m].caller = 1 /\ requests[m].op = "reply"
           /\ requests[n].pid = 3 /\ requests[n].caller = 1 /\ requests[n].op = "reply"

-----------------------------------------------------------------------------
(* The pure functions of the script, each evaluated on its own: the run    *)
(* of the migration has not started, `call` holds the arguments and, once  *)
(* the function has returned, its result.                                  *)

\* the state of the script while no migration runs
NoRun ==
    /\ scenario = "tree"
    /\ file = NoFile
    /\ driver = [pc |-> "relax", chunk |-> 0, relaxed |-> 0, error |-> "none",
                 alreadyMigrated |-> {},
                 write |-> "none",
                 snapshot |-> [tetraPid2nodePid |-> EmptyMap, tetraPid2nodeTid |-> EmptyMap],
                 restore |-> "none", restoreIssued |-> 0, restored |-> 0]
    /\ users = [u \in Usernames |-> [st |-> "none", uid |-> 0]]
    /\ lookups = [u \in Usernames |-> 0]
    /\ creates = [u \in Usernames |-> 0]
    /\ tetraPid2nodePid = EmptyMap
    /\ tetraPid2nodeTid = EmptyMap
    /\ parsedTetra = [p \in Pids |-> "lazy"]
    /\ tasks = <<>>
    /\ requests = <<>>
    /\ nextId = 5
    /\ attempted = {}

run == <<version, scenario, driver, users, lookups, creates, tetraPid2nodePid,
         tetraPid2nodeTid, parsedTetra, tasks, requests, nextId, attempted, file>>

\* the strings over the alphabet A of length at most n
Strings(A, n) == UNION {[1..k -> A] : k \in 0..n}

\* the longest content handed to splitContent
MaxContentLen == 6

SplitInit ==
    /\ NoRun
    /\ version \in {"app", "chunked"}
    /\ \E c \in Strings({"x", NL}, MaxContentLen) :
           call = [fn |-> "splitContent", content |-> c, returned |-> FALSE,
                   split |-> <<>>, rest |-> <<>>]

\* const { split, rest } = splitContent(post.content)
CallSplitContent ==
    /\ call.fn = "splitContent"
    /\ ~call.returned
    /\ call' = [call EXCEPT !.returned = TRUE,
                            !.split = splitContent(call.content).split,
                            !.rest = splitContent(call.content).rest]
    /\ UNCHANGED run

SplitSpec == SplitInit /\ [][CallSplitContent]_vars

\* C12 - Split round-trip: when splitContent returns a rest, split followed by rest
\* is the content, character for character; a content of at most maxPostLength
\* characters comes back whole, without a rest.
SplitRoundTrip ==
    (call.fn = "splitContent" /\ call.returned) =>
        /\ call.rest # <<>> => call.split \o call.rest = call.content
        /\ Len(call.content) <= maxPostLength =>
               call.rest = <<>> /\ call.split = call.content

\* C12 witness: an oversized content was cut into a split and a rest, both present
SplitRoundTripWitness ==
    /\ call.fn = "splitContent" /\ call.returned
    /\ Len(call.content) > maxPostLength
    /\ call.split # <<>> /\ call.rest # <<>>
    /\ call.split \o call.rest = call.content

\* C13 - Whenever splitContent returns a rest, the cut is at a newline at or before
\* maxPostLength: the rest begins with that newline and the split is the content
\* before it.
CutAtNewline ==
    (call.fn = "splitContent" /\ call.returned /\ call.rest # <<>>) =>
        /\ Len(call.split) <= maxPostLength
        /\ call.rest[1] = NL
        /\ call.content[Len(call.split) + 1] = NL

-----------------------------------------------------------------------------
(* Username sanitisation. A string is a sequence of characters; the        *)
(* character classes of the regular expressions are given for the          *)
(* characters that occur in the inputs ("u00B5" is the micro sign, a       *)
(* letter below the range \u00BF-\u1FFF).                                 *)

\* \p{L}
IsLetter(c) == c \in {"a", "m", "p", "A", "u00B5"}

\* \w
IsWord(c) == c \in {"a", "m", "p", "A"}

\* \s
IsSpace(c) == c \in {" ", "\t"}

\* ['" \-+.*[\]0-9\u00BF-\u1FFF\u2C00-\uD7FF\w]
IsValidChar(c) == IsWord(c) \/ c \in {" ", "-", "+", ".", "*"}

\* toLocaleLowerCase, character by character
Lower(c) == IF c = "A" THEN "a" ELSE c

\* the characters of s at the positions not in drop
Without(s0, drop0) ==
    Bind(s0, LAMBDA s : Bind(drop0, LAMBDA drop :
      LET F[i \in 0..Len(s)] ==
              IF i = 0 THEN <<>>
              ELSE IF i \in drop THEN F[i - 1] ELSE Append(F[i - 1], s[i])
      IN  F[Len(s)]))

\* 0, or the first position of s in at
FirstOf(s0, at0) ==
    Bind(at0 \cap (1..Len(s0)), LAMBDA at :
      IF at = {} THEN 0 ELSE CHOOSE i \in at : \A j \in at : i <= j)

slugify(str0) ==
    Bind(str0, LAMBDA str :
    Bind(Without(str, {i \in 1..Len(str) : \/ \A j \in 1..i : IsSpace(str[j])
                                           \/ \A j \in i..Len(str) : IsSpace(str[j])}),
         LAMBDA trimmed :
    Bind(/\ trimmed # <<>>
         /\ \A i \in 1..Len(trimmed) :
                \/ IsWord(trimmed[i]) \/ IsSpace(trimmed[i])
                \/ trimmed[i] \in {".", ",", "-", "@"},
         LAMBDA isLatin :
    Bind([i \in 1..Len(trimmed) |->
             LET c == trimmed[i]
             IN  IF isLatin
                 THEN IF IsWord(c) \/ IsSpace(c) \/ c = "-" THEN c ELSE "-"
                 ELSE IF IsLetter(c) \/ IsSpace(c) \/ c = "-" THEN c ELSE "-"],
         LAMBDA dashed :
    Bind([i \in 1..Len(dashed) |-> Lower(dashed[i])], LAMBDA lower :
    Bind(Without(lower, {i \in 2..Len(lower) : IsSpace(lower[i]) /\ IsSpace(lower[i - 1])}),
         LAMBDA oneSpace :
    Bind([i \in 1..Len(oneSpace) |-> IF IsSpace(oneSpace[i]) THEN "-" ELSE oneSpace[i]],
         LAMBDA spaced :
    Bind(Without(spaced, {i \in 2..Len(spaced) : spaced[i] = "-" /\ spaced[i - 1] = "-"}),
         LAMBDA oneDash :
    Bind(IF oneDash # <<>> /\ oneDash[Len(oneDash)] = "-"
         THEN SubSeq(oneDash, 1, Len(oneDash) - 1) ELSE oneDash,
         LAMBDA noTrail :
      IF str = <<>> THEN <<>>
      ELSE IF noTrail # <<>> /\ noTrail[1] = "-" THEN Tail(noTrail) ELSE noTrail)))))))))

isUserNameValid(name) ==
    name # <<>> /\ \A i \in 1..Len(name) : IsValidChar(name[i])

sanitizeUsername(username0) ==
    Bind(username0, LAMBDA username :
      IF isUserNameValid(username) /\ slugify(username) # <<>>
      THEN username
      ELSE
    Bind(Without(username,
                 {FirstOf(username, {i \in 1..Len(username) : username[i] = ","})}),
         LAMBDA s1 :
    Bind(FirstOf(s1, {i \in 1..(Len(s1) - 3) :
                          SubSeq(s1, i, i + 3) = <<"&", "a", "m", "p">>}),
         LAMBDA amp :
    Bind(IF amp = 0 THEN s1
         ELSE SubSeq(s1, 1, amp - 1) \o <<"+">> \o SubSeq(s1, amp + 4, Len(s1)),
         LAMBDA s2 :
    Bind([i \in 1..Len(s2) |->
             IF IsLetter(s2[i]) \/ IsSpace(s2[i]) \/ s2[i] = "-" THEN s2[i] ELSE "-"],
         LAMBDA s3 :
      Without(s3, {FirstOf(s3, {i \in 1..Len(s3) : ~IsValidChar(s3[i])})}))))))

\* the POSTER values are put together from these pieces
Pieces == {<<"a">>, <<"A">>, <<",">>, <<"&", "a", "m", "p">>, <<"\t">>, <<" ">>,
           <<"-">>, <<"+">>, <<"u00B5">>}

\* the largest number of pieces of a POSTER value
MaxPieces == 3

RECURSIVE Flatten(_)
Flatten(ps0) ==
    Bind(ps0, LAMBDA ps :
      IF ps = <<>> THEN <<>> ELSE Head(ps) \o Flatten(Tail(ps)))

SanitizeInit ==
    /\ NoRun
    /\ version \in {"app", "chunked"}
    /\ \E ps \in Strings(Pieces, MaxPieces) :
           call = [fn |-> "sanitizeUsername", username |-> Flatten(ps), calls |-> 0,
                   once |-> <<>>, twice |-> <<>>]

\* parsed.username = sanitizeUsername(value), and the same on the name it returned
CallSanitizeUsername ==
    /\ call.fn = "sanitizeUsername"
    /\ call.calls < 2
    /\ call' = IF call.calls = 0
               THEN [call EXCEPT !.calls = 1, !.once = sanitizeUsername(call.username)]
               ELSE [call EXCEPT !.calls = 2, !.twice = sanitizeUsername(call.once)]
    /\ UNCHANGED run

SanitizeSpec == SanitizeInit /\ [][CallSanitizeUsername]_vars

\* C14 - Sanitisation is idempotent: sanitising the name that sanitizeUsername
\* returned gives that name again.
SanitizeIdempotent ==
    (call.fn = "sanitizeUsername" /\ call.calls = 2) => call.twice = call.once

-----------------------------------------------------------------------------
(* Properties of the migration run, continued.                             *)

\* C15 - Mappings only grow: no step removes a key from the post-id or the topic-id
\* mapping, and the mapping file, when it is written, holds every key the mappings
\* hold at that moment and every key the file held before.
MappingsOnlyGrow ==
    [][/\ DOMAIN tetraPid2nodePid \subseteq DOMAIN tetraPid2nodePid'
       /\ DOMAIN tetraPid2nodeTid \subseteq DOMAIN tetraPid2nodeTid'
       /\ file' # file =>
              /\ DOMAIN tetraPid2nodePid \subseteq DOMAIN file'.tetraPid2nodePid
              /\ DOMAIN tetraPid2nodeTid \subseteq DOMAIN file'.tetraPid2nodeTid
              /\ DOMAIN file.tetraPid2nodePid \subseteq DOMAIN file'.tetraPid2nodePid
              /\ DOMAIN file.tetraPid2nodeTid \subseteq DOMAIN file'.tetraPid2nodeTid]_vars

\* C15 witness: the file written at the end holds a loaded id and an id recorded in
\* this run
MappingsOnlyGrowWitness ==
    /\ driver.write = "ok"
    /\ driver.alreadyMigrated # {}
    /\ driver.alreadyMigrated \subseteq DOMAIN file.tetraPid2nodePid
    /\ \E p \in DOMAIN file.tetraPid2nodePid : p \notin driver.alreadyMigrated

\* const limit = pLimit(10): the concurrency limit, scaled down with chunkSize
\* (10 of the 100 posts of a chunk in the script)
limit == 1

\* the tasks whose POST of a post is in flight
InFlight ==
    {t \in 1..Len(tasks) : /\ tasks[t].st = "run"
                           /\ tasks[t].stack # <<>>
                           /\ Top(World, t).pc = "awaitSubmit"}

\* C16 - At no time are more submissions of posts in flight than the concurrency
\* limit.
SubmissionsLimited ==
    Cardinality(InFlight) <= limit

-----------------------------------------------------------------------------
(* Strings as the parser uses them: positions count from 0.                *)

\* s.indexOf(c, from): the first position >= from that holds c, -1 if there is none
IndexOf(s0, c, from) ==
    Bind(s0, LAMBDA s :
    Bind({i \in 0..(Len(s) - 1) : i >= from /\ s[i + 1] = c}, LAMBDA at :
      IF at = {} THEN -1 ELSE CHOOSE i \in at : \A j \in at : i <= j))

\* s.substring(a, b): negative positions count as 0, positions beyond the end as
\* the length, and the two are swapped when a > b
Substring(s0, a0, b0) ==
    Bind(s0, LAMBDA s :
    Bind(IF a0 < 0 THEN 0 ELSE IF a0 > Len(s) THEN Len(s) ELSE a0, LAMBDA a :
    Bind(IF b0 < 0 THEN 0 ELSE IF b0 > Len(s) THEN Len(s) ELSE b0, LAMBDA b :
      IF a <= b THEN SubSeq(s, a + 1, b) ELSE SubSeq(s, b + 1, a))))

\* faulty variant of extractTagsFromSubject: the closing marker stays in the subject
RECURSIVE extractTagsKeepsMarker(_, _)
extractTagsKeepsMarker(subject0, tags) ==
    Bind(subject0, LAMBDA subject :
    Bind(IndexOf(subject, "*", 0), LAMBDA tagStart :
    Bind(IndexOf(subject, "*", tagStart + 1), LAMBDA tagEnd :
      IF tagStart = -1 \/ tagEnd <= 0
      THEN [subject |-> subject, tags |-> tags]
      ELSE extractTagsKeepsMarker(
               Substring(subject, 0, tagStart) \o Substring(subject, tagEnd, Len(subject)),
               Append(tags, Substring(subject, tagStart + 1, tagEnd))))))

\* extractTagsFromSubject(subject) is extractTagsFromSubject(subject, <<>>): the
\* second parameter is the list `tags` of the loop
RECURSIVE extractTagsFromSubject(_, _)
extractTagsFromSubject(subject0, tags) ==
    Bind(subject0, LAMBDA subject :
    Bind(IndexOf(subject, "*", 0), LAMBDA tagStart :
    Bind(IndexOf(subject, "*", tagStart + 1), LAMBDA tagEnd :
      IF tagStart = -1 \/ tagEnd <= 0
      THEN [subject |-> subject, tags |-> tags]
      ELSE extractTagsFromSubject(
               Substring(subject, 0, tagStart)
                   \o Substring(subject, tagEnd + 1, Len(subject)),
               Append(tags, Substring(subject, tagStart + 1, tagEnd))))))

\* the longest subject drawn from the alphabet
MaxSubjectLen == 5

\* 'Hello *urgent* world'
HelloUrgentWorld ==
    <<"H", "e", "l", "l", "o", " ", "*", "u", "r", "g", "e", "n", "t", "*", " ",
      "w", "o", "r", "l", "d">>

TagsInit ==
    /\ NoRun
    /\ version = "chunked"
    /\ \E s \in Strings({"a", " ", "*"}, MaxSubjectLen) \cup {HelloUrgentWorld} :
           call = [fn |-> "extractTagsFromSubject", value |-> s, returned |-> FALSE,
                   subject |-> <<>>, tags |-> <<>>]

\* const [subject, tags] = extractTagsFromSubject(value)
CallExtractTags ==
    /\ call.fn = "extractTagsFromSubject"
    /\ ~call.returned
    /\ call' = [call EXCEPT !.returned = TRUE,
                            !.subject = extractTagsFromSubject(call.value, <<>>).subject,
                            !.tags = extractTagsFromSubject(call.value, <<>>).tags]
    /\ UNCHANGED run

TagsSpec == TagsInit /\ [][CallExtractTags]_vars

\* the positions (from 1) of the markers of s, in order
Markers(s) == SortedSeq({i \in 1..Len(s) : s[i] = "*"})

\* C18 - Subject tag extraction: the first and second marker, the third and fourth,
\* ... are pairs; the subject returned is the value without the pairs and the text
\* they enclose, the tags are the enclosed texts in order of appearance, and a last
\* marker without a partner stays where it is. 'Hello *urgent* world' yields the tag
\* 'urgent' and the subject 'Hello  world', with both blanks that surrounded the tag.
TagsExtracted ==
    (call.fn = "extractTagsFromSubject" /\ call.returned) =>
        LET m      == Markers(call.value)
            npairs == Len(m) \div 2
            inPair == {i \in 1..Len(call.value) :
                           \E j \in 1..npairs : m[2 * j - 1] <= i /\ i <= m[2 * j]}
        IN  /\ call.subject = Without(call.value, inPair)
            /\ call.tags = [j \in 1..npairs |->
                               SubSeq(call.value, m[2 * j - 1] + 1, m[2 * j] - 1)]
            /\ call.value = HelloUrgentWorld =>
                   /\ call.tags = <<<<"u", "r", "g", "e", "n", "t">>>>
                   /\ call.subject = <<"H", "e", "l", "l", "o", " ", " ",
                                       "w", "o", "r", "l", "d">>

\* C18 witness: a subject with a pair of markers and a marker without a partner
\* has been taken apart
TagsExtractedWitness ==
    /\ call.fn = "extractTagsFromSubject" /\ call.returned
    /\ Len(Markers(call.value)) = 3
    /\ Len(call.tags) = 1 /\ call.tags[1] # <<>>
    /\ Len(Markers(call.subject)) = 1

\* C18 as stated: 'Hello *urgent* world' yields the subject 'Hello world' and the
\* tag 'urgent'
HelloWorldDisplayed ==
    (call.fn = "extractTagsFromSubject" /\ call.returned
         /\ call.value = HelloUrgentWorld) =>
        /\ \E j \in 1..Len(call.tags) : call.tags[j] = <<"u", "r", "g", "e", "n", "t">>
        /\ call.subject = <<"H", "e", "l", "l", "o", " ", "w", "o", "r", "l", "d">>

-----------------------------------------------------------------------------
(* The parser of a post file.                                              *)

\* null
Null == <<"null">>

\* [A-Z_]
IsUpper(c) ==
    c \in {"A", "B", "C", "D", "E", "F", "G", "H", "I", "J", "K", "L", "M", "N", "O",
           "P", "Q", "R", "S", "T", "U", "V", "W", "X", "Y", "Z", "_"}

\* kvMatcher.exec(line): the key is the run of [A-Z_] at the start of the line, it
\* must be followed by '>', and the value ends before the first line terminator
KvMatch(line0) ==
    Bind(line0, LAMBDA line :
    Bind(CHOOSE k \in 0..Len(line) :
             /\ \A i \in 1..k : IsUpper(line[i])
             /\ k < Len(line) => ~IsUpper(line[k + 1]),
         LAMBDA keyLen :
    Bind(SubSeq(line, keyLen + 2, Len(line)), LAMBDA after :
    Bind(IndexOf(after, NL, 0), LAMBDA nl :
      IF keyLen >= 1 /\ keyLen < Len(line) /\ line[keyLen + 1] = ">"
      THEN [matched |-> TRUE, key |-> SubSeq(line, 1, keyLen),
            value |-> IF nl = -1 THEN after ELSE SubSeq(after, 1, nl)]
      ELSE [matched |-> FALSE, key |-> <<>>, value |-> <<>>]))))

\* tagMatcher.exec(line): the whole line is <!--tag-->, the tag without a newline
TagMatch(line0) ==
    Bind(line0, LAMBDA line :
      IF /\ Len(line) >= 7
         /\ SubSeq(line, 1, 4) = <<"<", "!", "-", "-">>
         /\ SubSeq(line, Len(line) - 2, Len(line)) = <<"-", "-", ">">>
         /\ IndexOf(SubSeq(line, 5, Len(line) - 3), NL, 0) = -1
      THEN [matched |-> TRUE, tag |-> SubSeq(line, 5, Len(line) - 3)]
      ELSE [matched |-> FALSE, tag |-> <<>>])

\* s.trim()
Trim(s0) ==
    Bind(s0, LAMBDA s :
      Without(s, {i \in 1..Len(s) : \/ \A j \in 1..i : IsSpace(s[j]) \/ s[j] = NL
                                    \/ \A j \in i..Len(s) : IsSpace(s[j]) \/ s[j] = NL}))

\* s.split(" ").filter(s => s.length > 0)
RECURSIVE SplitBlank(_)
SplitBlank(s0) ==
    Bind(s0, LAMBDA s :
    Bind(IndexOf(s, " ", 0), LAMBDA at :
      IF s = <<>> THEN <<>>
      ELSE IF at = -1 THEN <<s>>
      ELSE IF at = 0 THEN SplitBlank(Tail(s))
      ELSE <<SubSeq(s, 1, at)>> \o SplitBlank(SubSeq(s, at + 2, Len(s)))))

\* value.padEnd(13, '0')
PadEnd(s0) ==
    Bind(s0, LAMBDA s :
      s \o [i \in 1..(IF Len(s) < 13 THEN 13 - Len(s) ELSE 0) |-> "0"])

\* s.replaceAll(pat, rep)
RECURSIVE ReplaceAll(_, _, _)
ReplaceAll(s0, pat, rep) ==
    Bind(s0, LAMBDA s :
    Bind(FirstOf(s, {i \in 1..(Len(s) - Len(pat) + 1) :
                         SubSeq(s, i, i + Len(pat) - 1) = pat}),
         LAMBDA i :
      IF i = 0 THEN s
      ELSE SubSeq(s, 1, i - 1) \o rep
               \o ReplaceAll(SubSeq(s, i + Len(pat), Len(s)), pat, rep)))

\* turndownService.turndown(html) on text whose only markup are comments: the
\* comments are dropped, runs of whitespace become one blank and the ends are
\* trimmed (other markup stays as it is)
RECURSIVE DropComments(_)
DropComments(s0) ==
    Bind(s0, LAMBDA s :
    Bind(FirstOf(s, {i \in 1..(Len(s) - 3) : SubSeq(s, i, i + 3) = <<"<", "!", "-", "-">>}),
         LAMBDA o :
    Bind(FirstOf(s, {i \in (o + 4)..(Len(s) - 2) : SubSeq(s, i, i + 2) = <<"-", "-", ">">>}),
         LAMBDA c :
      IF o = 0 THEN s
      ELSE IF c = 0 THEN SubSeq(s, 1, o - 1)
      ELSE SubSeq(s, 1, o - 1) \o DropComments(SubSeq(s, c + 3, Len(s))))))

turndown(html) ==
    Bind(DropComments(html), LAMBDA text :
    Bind(Without(text, {i \in 2..Len(text) :
                            /\ IsSpace(text[i]) \/ text[i] = NL
                            /\ IsSpace(text[i - 1]) \/ text[i - 1] = NL}),
         LAMBDA oneBlank :
      Trim([i \in 1..Len(oneBlank) |->
               IF IsSpace(oneBlank[i]) \/ oneBlank[i] = NL THEN " " ELSE oneBlank[i]])))

\* the header keys the switch knows
SUBJECT == <<"S", "U", "B", "J", "E", "C", "T">>
POSTER == <<"P", "O", "S", "T", "E", "R">>
EMAIL == <<"E", "M", "A", "I", "L">>
DATE == <<"D", "A", "T", "E">>
PREVIOUS == <<"P", "R", "E", "V", "I", "O", "U", "S">>
NEXT == <<"N", "E", "X", "T">>
IMAGE == <<"I", "M", "A", "G", "E">>

\* let parsed = {...}; lineStart = 0; lineEnd = -1 (image: part_002 only;
\* iterations counts the passes through the loop)
ScanStart ==
    [pc |-> "scan", lineStart |-> 0, lineEnd |-> -1, image |-> Null, iterations |-> 0,
     parsed |-> [isThreadStart |-> FALSE, previous |-> Null, next |-> <<Null>>,
                 subject |-> Null, timestamp |-> Null, email |-> Null,
                 username |-> Null, content |-> Null, tags |-> <<>>]]

\* the statements after the loop
ScanReturn(data, s0) ==
    Bind(s0, LAMBDA s :
    Bind(Substring(data, s.lineStart, Len(data)), LAMBDA contentHtml :
    Bind(IF version = "app"
         THEN ReplaceAll(contentHtml,
                         <<"\"", "/", "w", "e", "b", "b", "b", "s", "/">>,
                         <<"\"", "https://www.lepiforum.de", "/", "w", "e", "b", "b",
                           "b", "s", "/">>)
         ELSE IF s.image # Null /\ s.image # <<>>
         THEN contentHtml \o <<"<br /><br /> <img src=\"">> \o s.image
                  \o <<"\" alt=\"post image\"</img>">>
         ELSE contentHtml,
         LAMBDA contentAbs :
      [s EXCEPT !.pc = "returned", !.parsed.content = turndown(contentAbs)])))

\* switch (key)
ScanSwitch(s0, key0, value0) ==
    Bind(s0, LAMBDA s : Bind(key0, LAMBDA key : Bind(value0, LAMBDA value :
      IF key = SUBJECT
      THEN IF version = "app"
           THEN [s EXCEPT !.parsed.subject = value]
           ELSE Bind(extractTagsFromSubject(value, <<>>), LAMBDA r :
                  [s EXCEPT !.parsed.subject = r.subject,
                            !.parsed.tags = @ \o r.tags])
      ELSE IF key = POSTER THEN [s EXCEPT !.parsed.username = sanitizeUsername(value)]
      ELSE IF key = EMAIL THEN [s EXCEPT !.parsed.email = <<>>]
      ELSE IF key = DATE THEN [s EXCEPT !.parsed.timestamp = PadEnd(value)]
      ELSE IF key = PREVIOUS
      THEN [s EXCEPT !.parsed.isThreadStart = (value = <<>>),
                     !.parsed.previous = Trim(value)]
      ELSE IF key = NEXT THEN [s EXCEPT !.parsed.next = SplitBlank(Trim(value))]
      ELSE IF key = IMAGE /\ version = "chunked" THEN [s EXCEPT !.image = Trim(value)]
      ELSE s)))

\* one pass through the while (true) loop of parseTetraPost
ScanStep(data0, s0) ==
    Bind(data0, LAMBDA data : Bind(s0, LAMBDA s :
    Bind(s.lineEnd + 1, LAMBDA lineStart :
    Bind(IndexOf(data, NL, lineStart), LAMBDA lineEnd :
    Bind(Substring(data, lineStart, lineEnd), LAMBDA line :
    Bind(KvMatch(line), LAMBDA kv :
    Bind(TagMatch(line), LAMBDA tagMatch :
    Bind([s EXCEPT !.lineStart = lineStart, !.lineEnd = lineEnd, !.iterations = @ + 1],
         LAMBDA s1 :
      IF ~kv.matched
      THEN IF ~tagMatch.matched
           THEN ScanReturn(data, s1)
           ELSE [s1 EXCEPT !.parsed.tags = Append(@, tagMatch.tag)]
      ELSE ScanSwitch(s1, kv.key, kv.value)))))))))

\* const reqBody = {...} of createUser
createUserBody(username, email) ==
    [uid |-> 1, username |-> username, email |-> email]

\* the lines of a file
NumLines(data) == Cardinality({i \in 1..Len(data) : data[i] = NL}) + 1

\* the file `data` with the value of the EMAIL lines of its header replaced by
\* address; the header is the prefix of lines that are KEY>value pairs or tags
RECURSIVE WithEmail(_, _)
WithEmail(data0, address) ==
    Bind(data0, LAMBDA data :
    Bind(IndexOf(data, NL, 0), LAMBDA nl :
    Bind(IF nl = -1 THEN data ELSE SubSeq(data, 1, nl), LAMBDA line :
    Bind(KvMatch(line), LAMBDA kv :
    Bind(IF kv.matched /\ kv.key = EMAIL THEN EMAIL \o <<">">> \o address ELSE line,
         LAMBDA new :
      IF ~kv.matched /\ ~TagMatch(line).matched THEN data
      ELSE IF nl = -1 THEN new
      ELSE new \o <<NL>> \o WithEmail(SubSeq(data, nl + 2, Len(data)), address))))))

\* the files are put together from these parts
Parts ==
    {SUBJECT \o <<">">>, POSTER \o <<">">>, EMAIL \o <<">">>, PREVIOUS \o <<">">>,
     <<"<", "!", "-", "-", "t", "-", "-", ">">>, <<"a">>, <<"1">>, <<NL>>,
     PREVIOUS \o <<">", " ">>}

\* another e-mail address
OtherAddress == <<"y">>

ParseInit ==
    /\ NoRun
    /\ version \in {"app", "chunked"}
    /\ \E ps \in Strings(Parts, MaxPieces) :
           call = [fn |-> "parseTetraPost", data |-> Flatten(ps),
                   twin |-> WithEmail(Flatten(ps), OtherAddress),
                   scan |-> ScanStart, scanTwin |-> ScanStart]

\* parseTetraPost(data) and parseTetraPost(twin), a pass through the loop each
ParseStep ==
    /\ call.fn = "parseTetraPost"
    /\ LET more(s) == s.pc = "scan" /\ s.iterations <= NumLines(call.data) + 1
       IN  /\ more(call.scan) \/ more(call.scanTwin)
           /\ call' = [call EXCEPT
                         !.scan = IF more(@) THEN ScanStep(call.data, @) ELSE @,
                         !.scanTwin = IF more(@) THEN ScanStep(call.twin, @) ELSE @]
    /\ UNCHANGED run

ParseSpec == ParseInit /\ [][ParseStep]_vars

\* C17 - parseTetraPost is total: for every file the header scan ends, after no more
\* passes through the loop than the file has lines (and one for an empty rest), and
\* a ParsedPost is returned.
ScanTerminates ==
    call.fn = "parseTetraPost" => call.scan.iterations <= NumLines(call.data) + 1

\* C20 - The e-mail address is never propagated: two files that differ only in the
\* value of their EMAIL header give the same ParsedPost, with no address in it, and
\* the same body of the create-user request.
EmailNotPropagated ==
    (call.fn = "parseTetraPost" /\ call.scan.pc = "returned"
         /\ call.scanTwin.pc = "returned") =>
        /\ call.scan.parsed.email \in {Null, <<>>}
        /\ call.scan.parsed = call.scanTwin.parsed
        /\ createUserBody(call.scan.parsed.username, call.scan.parsed.email)
               = createUserBody(call.scanTwin.parsed.username, call.scanTwin.parsed.email)

-----------------------------------------------------------------------------
(* Resumed runs.                                                           *)

\* every call of the target API, of readdir and of writeFile has succeeded so far
AllCallsSucceeded ==
    /\ driver.error \notin {"relax", "enumerate"}
    /\ driver.write # "failed"
    /\ driver.restore # "failed"
    /\ \A u \in Usernames : users[u].st \notin {"invalid", "error"}
    /\ \A t \in 1..Len(tasks) : ~tasks[t].rejected

-----------------------------------------------------------------------------
(* Resolution of the author.                                               *)

\* the step sends the POST of the post of frame fr under uid
SentUnder(fr, uid) ==
    \E n \in (Len(requests) + 1)..Len(requests') :
        /\ requests'[n].op \in {"topic", "reply"}
        /\ requests'[n].pid = fr.pid /\ requests'[n].k = fr.k
        /\ requests'[n].uid = uid

\* the step sends no POST of the post of frame fr
NotSent(fr) ==
    \A n \in (Len(requests) + 1)..Len(requests') :
        ~(requests'[n].op \in {"topic", "reply"}
              /\ requests'[n].pid = fr.pid /\ requests'[n].k = fr.k)

\* the reply of frame fr has no topic to go to: preparePostForRequest throws
NoTopicFor(fr) ==
    /\ ~ParsedPost(fr.pid, fr.k).isThreadStart
    /\ ParsedPost(fr.pid, fr.k).previous \notin DOMAIN tetraPid2nodeTid

\* C21 - Anonymous fallback (part_002): when the creation of a post's author is
\* rejected for an invalid username, the chain that waits for the author resolves
\* 'Anonymous' (looked up once) and the post is submitted under that uid; when the
\* resolution of the author fails otherwise, or the one of 'Anonymous' fails, the
\* post fails and is not submitted.
AnonymousFallback ==
    [][version = "chunked" =>
         /\ lookups'["Anonymous"] <= 1
         /\ \A t \in 1..Len(tasks) :
              LET fr   == Top(World, t)
                  u    == ParsedPost(fr.pid, fr.k).username
                  anon == users'["Anonymous"]
                  top  == tasks'[t].stack[Len(tasks'[t].stack)]
              IN  /\ (tasks[t].st = "run" /\ fr.pc = "awaitUser"
                          /\ users[u].st # users'[u].st /\ users'[u].st = "invalid") =>
                         /\ ~Settled(anon.st) =>
                                /\ tasks'[t].st = "run" /\ top.pc = "awaitAnon"
                                /\ anon.st = "lookup"
                         /\ anon.st = "ok" =>
                                \/ SentUnder(fr, anon.uid)
                                \/ NoTopicFor(fr) /\ tasks'[t].st = "failed"
                         /\ anon.st \in {"invalid", "error"} =>
                                tasks'[t].st = "failed" /\ NotSent(fr)
                  /\ (tasks[t].st = "run" /\ fr.pc = "awaitUser"
                          /\ users[u].st # users'[u].st /\ users'[u].st = "error") =>
                         /\ tasks'[t].st = "failed" /\ NotSent(fr)
                         /\ lookups'["Anonymous"] = lookups["Anonymous"]
                  /\ (tasks[t].st = "run" /\ fr.pc = "awaitAnon"
                          /\ Settled(anon.st)) =>
                         IF anon.st = "ok"
                         THEN \/ SentUnder(fr, anon.uid)
                              \/ NoTopicFor(fr) /\ tasks'[t].st = "failed"
                         ELSE tasks'[t].st = "failed" /\ NotSent(fr)]_vars

\* C21 witness: the account of "b" was rejected as invalid and a post of "b" was
\* submitted under the uid of 'Anonymous'
AnonymousFallbackWitness ==
    /\ version = "chunked"
    /\ users["b"].st = "invalid"
    /\ users["Anonymous"].st = "ok"
    /\ \E n \in PostRequests : /\ PostOf(n).username = "b"
                               /\ requests[n].uid = users["Anonymous"].uid

-----------------------------------------------------------------------------
(* The mapping file at the start of the run.                               *)

\* C22 - No mapping file at the start: reading it raises no error, both mappings
\* stay empty, no post counts as already migrated, and the run goes on to migrate
\* every post of the folder.
MissingFileIsNoError ==
    [][/\ (LoadMapping /\ ~file.present) =>
              /\ driver'.pc = "enumerate" /\ driver'.error = "none"
              /\ tetraPid2nodePid' = EmptyMap /\ tetraPid2nodeTid' = EmptyMap
              /\ driver'.alreadyMigrated = {}
       /\ (Enumerate(TRUE) /\ ~file.present) =>
              {tasks'[t].pid : t \in 1..Len(tasks')} \ {0} = Pids]_vars

\* C22 witness: a run without a mapping file has built a task for every post
MissingFileWitness ==
    /\ ~file.present
    /\ driver.pc = "migrate" /\ driver.error = "none"
    /\ driver.alreadyMigrated = {}
    /\ {tasks[t].pid : t \in 1..Len(tasks)} \ {0} = Pids

-----------------------------------------------------------------------------
(* Submissions.                                                            *)

\* C23 - Within one run no post is submitted twice: two POSTs of posts are never for
\* the same legacy id and the same chunk of its content.
NoDuplicateSubmission ==
    \A m, n \in PostRequests :
        (requests[m].pid = requests[n].pid /\ requests[m].k = requests[n].k) => m = n

\* C24 - The recursion over the next ids gates like the top-level pass: a dependent
\* whose previous post is not migrated yet is deferred, and no migration fails with
\* 'Cannot find topic id' because of it.
DependentsDeferred ==
    \A t \in 1..Len(tasks) : tasks[t].cause # "no topic id"

\* C25 - Migrating a post whose content was split raises nothing of its own: in a
\* forum whose records all have a NEXT header, no migration fails on the loop over
\* the next ids, those of a continuation, which has none, included.
SplitPostCompletes ==
    (\A p \in Pids : Record(p).hasNext) =>
        \A t \in 1..Len(tasks) : tasks[t].cause # "not iterable"

\* C26 - The overflow continuation chain terminates: whenever splitContent returns a
\* rest, the rest is strictly shorter than the content that was split.
RestShorter ==
    (call.fn = "splitContent" /\ call.returned /\ call.rest # <<>>) =>
        Len(call.rest) < Len(call.content)

\* C27 - Every content submitted has at most maxPostLength characters: the split
\* that splitContent returns, which is the content of the request, is that short.
SplitBounded ==
    (call.fn = "splitContent" /\ call.returned) =>
        Len(call.split) <= maxPostLength

\* C28 - Mapping updates are atomic per submitted post: the step that handles the
\* answer to a submission records the legacy id in both mappings at once and leaves
\* the entries of every other legacy id as they were, and at every point the two
\* mappings hold the same set of legacy ids.
MappingsAtomic ==
    [][/\ DOMAIN tetraPid2nodePid' = DOMAIN tetraPid2nodeTid'
       /\ (/\ driver.pc # "load"
           /\ <<tetraPid2nodePid, tetraPid2nodeTid>>' #
                  <<tetraPid2nodePid, tetraPid2nodeTid>>) =>
              \E p \in Pids :
                  /\ p \in DOMAIN tetraPid2nodePid'
                  /\ tetraPid2nodePid'[p] = nextId' - 1
                  /\ tetraPid2nodeTid'[p] < nextId'
                  /\ \A q \in DOMAIN tetraPid2nodePid \ {p} :
                         /\ q \in DOMAIN tetraPid2nodePid'
                         /\ tetraPid2nodePid'[q] = tetraPid2nodePid[q]
                         /\ tetraPid2nodeTid'[q] = tetraPid2nodeTid[q]]_vars

\* C28 witness: after a loaded mapping, two submissions that were in flight together
\* have both been answered while a third is still in flight
MappingsAtomicWitness ==
    /\ driver.alreadyMigrated # {}
    /\ \E m, n \in PostRequests :
           /\ m < n
           /\ requests[m].pid # requests[n].pid
           /\ {requests[m].pid, requests[n].pid} \subseteq
                  DOMAIN tetraPid2nodePid \ driver.alreadyMigrated
           /\ tetraPid2nodePid[requests[m].pid] > tetraPid2nodePid[requests[n].pid]
    /\ InFlight # {}
    /\ DOMAIN tetraPid2nodePid = DOMAIN tetraPid2nodeTid

\* C29 - A legacy id is marked migrated only when all of its content has been
\* submitted: when the target refuses the submission of an overflow continuation,
\* the legacy id of the post is not in the post-id mapping afterwards.
MigratedMeansComplete ==
    [][\A t \in 1..Len(tasks) :
           (/\ tasks[t].st = "run"
            /\ tasks[t].stack # <<>>
            /\ Top(World, t).pc = "awaitSubmit"
            /\ Top(World, t).k > 0
            /\ tasks'[t].st = "failed"
            /\ tasks'[t].rejected)
               => Top(World, t).pid \notin DOMAIN tetraPid2nodePid']_vars

\* C30 - Once a post id has been recorded for a legacy id, no step changes it: the
\* overflow continuation of a post does not overwrite the post id of the post.
RecordedPostIdStable ==
    [][\A p \in DOMAIN tetraPid2nodePid :
           /\ p \in DOMAIN tetraPid2nodePid'
           /\ tetraPid2nodePid'[p] = tetraPid2nodePid[p]]_vars

\* C31 - In part_002, when a migration of a batch has failed, the cleanup (mapping
\* write and settings restore) starts only in a step after which every migration
\* task of that batch has settled.
SiblingsSettleFirst ==
    [][(/\ version = "chunked"
        /\ driver'.error = "migration"
        /\ driver.pc # "cleanup"
        /\ driver'.pc = "cleanup")
           => \A t \in 1..Len(tasks') :
                  (tasks'[t].pid # 0 /\ (t - 1) \div chunkSize = driver'.chunk)
                      => tasks'[t].st \in {"ok", "deferred", "failed"}]_vars

\* C31 witness: the cleanup has started after a failed migration whose sibling in
\* the batch was submitted and answered
SiblingsSettleFirstWitness ==
    /\ version = "chunked"
    /\ driver.error = "migration"
    /\ driver.pc = "cleanup"
    /\ \E t, s \in Batch(World, driver) :
           /\ t # s
           /\ tasks[t].st = "failed" /\ tasks[t].rejected
           /\ tasks[s].st = "ok"
           /\ tasks[s].pid \in DOMAIN tetraPid2nodePid \ driver.alreadyMigrated
           /\ \E m, n \in PostRequests :
                  /\ requests[m].pid = tasks[s].pid /\ requests[m].caller = 0
                  /\ requests[n].pid = tasks[t].pid /\ requests[n].caller = 0

\* C32 - The mapping file written in cleanup equals the final in-memory mappings:
\* once the run is over and the file was written, the file holds the mappings as
\* they are in memory.
FileEqualsFinalMappings ==
    (RunOver /\ driver.write = "ok") =>
        /\ file.tetraPid2nodePid = tetraPid2nodePid
        /\ file.tetraPid2nodeTid = tetraPid2nodeTid

\* C33 - In every ParsedPost, isThreadStart is true if and only if previous is
\* empty (null or the empty string): the record declares no predecessor.
ThreadStartIffNoPrevious ==
    (call.fn = "parseTetraPost" /\ call.scan.pc = "returned") =>
        (call.scan.parsed.isThreadStart <=> call.scan.parsed.previous \in {Null, <<>>})

\* C34 - Migrating a successfully submitted post whose record has no NEXT header
\* completes without raising: the step that handles the answer to its submission
\* (or to its tags request) does not fail on the loop over the next ids.
NoNextHeaderCompletes ==
    [][\A t \in 1..Len(tasks) :
           (/\ tasks[t].st = "run"
            /\ tasks[t].stack # <<>>
            /\ Top(World, t).k = 0
            /\ Top(World, t).pc \in {"awaitSubmit", "awaitTags"}
            /\ ~Record(Top(World, t).pid).hasNext)
               => tasks'[t].cause # "not iterable"]_vars

\* C35 - Thread structure is preserved: for every reply migrated in this run, the
\* topic id recorded for its legacy id is the topic id recorded for its previous id.
ThreadStructurePreserved ==
    \A p \in DOMAIN tetraPid2nodeTid \ driver.alreadyMigrated :
        ~Record(p).isThreadStart =>
            /\ Record(p).previous \in DOMAIN tetraPid2nodeTid
            /\ tetraPid2nodeTid[p] = tetraPid2nodeTid[Record(p).previous]

\* C35 witness: the thread start and its two replies were migrated in this run and
\* share a topic, the unrelated thread has another one
ThreadStructureWitness ==
    /\ scenario = "tree"
    /\ driver.alreadyMigrated = {}
    /\ DOMAIN tetraPid2nodeTid = Pids
    /\ tetraPid2nodeTid[2] = tetraPid2nodeTid[1]
    /\ tetraPid2nodeTid[3] = tetraPid2nodeTid[1]
    /\ tetraPid2nodeTid[4] # tetraPid2nodeTid[1]

\* C36 - For a thread start that carries tags, the step that handles the successful
\* answer to its submission records the topic mapping and sends a set-tags request
\* for the created topic, and the migration waits for that request: it has not
\* returned after this step.
TagsFollowTopic ==
    [][\A t \in 1..Len(tasks) :
           (/\ tasks[t].st = "run"
            /\ tasks[t].stack # <<>>
            /\ Top(World, t).pc = "awaitSubmit"
            /\ Top(World, t).k = 0
            /\ Record(Top(World, t).pid).isThreadStart
            /\ Record(Top(World, t).pid).tags
            /\ Top(World, t).pid \in DOMAIN tetraPid2nodeTid')
               => /\ \E n \in (Len(requests) + 1)..Len(requests') :
                         /\ requests'[n].op = "tags"
                         /\ requests'[n].pid = Top(World, t).pid
                         /\ requests'[n].tid = tetraPid2nodeTid'[Top(World, t).pid]
                  /\ tasks'[t].st = "run"
                  /\ tasks'[t].stack # <<>>
                  /\ tasks'[t].stack[Len(tasks'[t].stack)].pc = "awaitTags"]_vars

\* C36 witness: the tags of a created topic were set and the migration of the
\* thread start has returned
TagsFollowTopicWitness ==
    /\ scenario = "tree"
    /\ 4 \in DOMAIN tetraPid2nodeTid \ driver.alreadyMigrated
    /\ \E n \in 1..Len(requests) :
           /\ requests[n].op = "tags"
           /\ requests[n].pid = 4
           /\ requests[n].tid = tetraPid2nodeTid[4]
    /\ \E t \in 1..Len(tasks) : tasks[t].pid = 4 /\ tasks[t].st = "ok"

\* C37 - A set-tags request is sent only for a thread start itself, never for a
\* reply or for an overflow continuation.
TagsOnlyForThreadStarts ==
    \A n \in 1..Len(requests) :
        requests[n].op = "tags" => (requests[n].k = 0 /\ PostOf(n).isThreadStart)

-----------------------------------------------------------------------------
(* The content of a request, as preparePostForRequest puts it together.    *)

\* if (post.content.length < 8): the minimal length, scaled to 2 characters
minPostLength == 2

\* the placeholder remark: "*Platzhalter: ...*" in app.mjs, '\n*Platzhalter (...)*'
\* in part_002, scaled so that a padded content has at most maxPostLength characters
placeholder ==
    IF version = "app" THEN <<"*", "*">> ELSE <<NL, "*">>

\* post.content at `return {path, body: post, ...}` for the parsed post
postContent(parsed0) ==
    Bind(parsed0, LAMBDA parsed :
    Bind(IF parsed.isThreadStart
         THEN \* app.mjs pads the content of a topic here
              IF version = "app" /\ Len(parsed.content) < minPostLength
              THEN parsed.content \o placeholder
              ELSE parsed.content
         ELSE \* Prepend former title to the post content
              IF parsed.subject \in {Null, <<>>}
              THEN parsed.content
              ELSE (IF version = "app" THEN parsed.subject ELSE turndown(parsed.subject))
                       \o <<NL>> \o parsed.content,
         LAMBDA own :
    Bind(\* part_002 pads the content of topics and replies here
         IF version = "chunked" /\ Len(own) < minPostLength
         THEN own \o placeholder
         ELSE own,
         LAMBDA padded :
      \* post.content = split
      splitContent(padded).split)))

ContentInit ==
    /\ NoRun
    /\ version \in {"app", "chunked"}
    /\ \E start \in BOOLEAN, subject \in {Null, <<"s">>},
          content \in Strings({"x", NL}, MaxContentLen) :
           call = [fn |-> "preparePostForRequest",
                   parsed |-> [isThreadStart |-> start, subject |-> subject,
                               content |-> content],
                   returned |-> FALSE, content |-> <<>>]

\* const reqData = await preparePostForRequest(parsed)
CallPreparePost ==
    /\ call.fn = "preparePostForRequest"
    /\ ~call.returned
    /\ call' = [call EXCEPT !.returned = TRUE, !.content = postContent(call.parsed)]
    /\ UNCHANGED run

ContentSpec == ContentInit /\ [][CallPreparePost]_vars

\* C38 - Every content submitted has at least the minimal length: the content that
\* preparePostForRequest puts into the request has minPostLength characters or more.
MinimalLength ==
    (call.fn = "preparePostForRequest" /\ call.returned) =>
        Len(call.content) >= minPostLength

-----------------------------------------------------------------------------
(* The admin settings of the target, as the two alterAdminSettings calls   *)
(* leave them.                                                             *)

\* the argument of the call at the top level: Object.entries in source order
relaxedSettings ==
    <<[setting |-> "postDelay", value |-> 0],
      [setting |-> "newbiePostDelayThreshold", value |-> 0],
      [setting |-> "newbiePostDelay", value |-> 0],
      [setting |-> "initialPostDelay", value |-> 0],
      [setting |-> "newbiePostEditDuration", value |-> 0]>>
    \o (IF version = "app" THEN <<>>
        ELSE <<[setting |-> "minimumPostLength", value |-> 1]>>)

\* the argument of the call in the final Promise.all / in cleanUp
normalSettings ==
    <<[setting |-> "postDelay", value |-> 10],
      [setting |-> "newbiePostDelayThreshold", value |-> 3],
      [setting |-> "newbiePostDelay", value |-> 120],
      [setting |-> "initialPostDelay", value |-> 10],
      [setting |-> "newbiePostEditDuration", value |-> 3600]>>
    \o (IF version = "app" THEN <<>>
        ELSE <<[setting |-> "minimumPostLength", value |-> 8]>>)

\* the settings the script writes
SettingNames == {normalSettings[i].setting : i \in 1..Len(normalSettings)}

\* the values a setting has on the target before the run: the value the script
\* takes for normal, or another one
OriginalSettings ==
    LET values == UNION {{normalSettings[i].value, normalSettings[i].value + 1} :
                            i \in 1..Len(normalSettings)}
    IN  {f \in [SettingNames -> values] :
            \A i \in 1..Len(normalSettings) :
                f[normalSettings[i].setting] \in
                    {normalSettings[i].value, normalSettings[i].value + 1}}

SettingsInit ==
    /\ NoRun
    /\ version \in {"app", "chunked"}
    /\ \E original \in OriginalSettings :
           call = [fn |-> "alterAdminSettings", original |-> original,
                   target |-> original, phase |-> "relax", sent |-> 0]

\* the response to PUT /admin/settings/<setting> of the entry the loop is at
alterAdminSettings(ok) ==
    /\ call.fn = "alterAdminSettings"
    /\ call.phase \in {"relax", "restore"}
    /\ LET settings == IF call.phase = "relax" THEN relaxedSettings ELSE normalSettings
           entry    == settings[call.sent + 1]
       IN  call' =
             IF ~ok
             THEN \* res.status != 200: throw new Error(`Unable to set admin setting ...`)
                  [call EXCEPT !.phase = "failed"]
             ELSE [call EXCEPT
                     !.target[entry.setting] = entry.value,
                     !.sent = IF call.sent + 1 = Len(settings) THEN 0 ELSE @ + 1,
                     !.phase = IF call.sent + 1 < Len(settings) THEN @
                               ELSE IF call.phase = "relax" THEN "migrate" ELSE "done"]
    /\ UNCHANGED run

\* the migration between the two calls leaves the settings alone
MigrationOver ==
    /\ call.fn = "alterAdminSettings"
    /\ call.phase = "migrate"
    /\ call' = [call EXCEPT !.phase = "restore"]
    /\ UNCHANGED run

SettingsSpec ==
    SettingsInit /\ [][(\E ok \in BOOLEAN : alterAdminSettings(ok)) \/ MigrationOver]_vars

\* C39 - After a completed run every admin setting that was relaxed at the start
\* has the value it had before the run.
OriginalsRestored ==
    (call.fn = "alterAdminSettings" /\ call.phase = "done") =>
        \A i \in 1..Len(relaxedSettings) :
            call.target[relaxedSettings[i].setting]
                = call.original[relaxedSettings[i].setting]

\* C40 - The name that sanitizeUsername returns satisfies isUserNameValid whenever
\* it is not empty.
SanitizedIsValid ==
    (call.fn = "sanitizeUsername" /\ call.calls >= 1 /\ call.once # <<>>) =>
        isUserNameValid(call.once)

=============================================================================
